---- MODULE Spec2Model ----
(***************************************************************************)
(* goto-bangumi: the store layer (package database) and the feed refresh   *)
(* pipeline (package refresh).                                             *)
(*                                                                         *)
(* The tables bangumi and episode_metadata are sequences of rows; a row's  *)
(* position is its auto-increment primary key.  An invocation of           *)
(* CreateBangumi is a process that goes through the statements of the      *)
(* function: Lock, the duplicate lookup, the merge and Save, the deferred  *)
(* Unlock.                                                                 *)
(***************************************************************************)
EXTENDS Integers, Sequences, FiniteSets, TLC

\* ------------------------------------------------------------------ bounds
\* goroutines that call CreateBangumi
NProc == 2
\* calls of CreateBangumi in one run
MaxCalls == 3
\* external catalog ids are 1..MaxExtID, in both catalogs
MaxExtID == 2
\* longest EpisodeMetadata list a candidate carries
MaxMeta == 2
\* releases in one fetched feed
MaxFeed == 2
\* feed pulls (FindNewBangumi or RefreshRSS) in one run
MaxPulls == 2
\* calls of GetDB and InitDB in one run
MaxGets == 3

\* ------------------------------------------------------------------ data
\* a nil *int / nil association pointer, and a NULL column
nil == -1

Procs == 1..NProc
ExtIDs == 1..MaxExtID

\* the five columns compared by the merge loop, and the columns of the
\* unique index idx_episode_metadata_unique
KeyFields == {"Title", "Season", "SubType", "Group", "Resolution"}
IndexFields == KeyFields \cup {"BangumiID"}

\* one parse result as the title parser hands it over (not yet stored:
\* primary key and owner are the zero value)
BaseMeta ==
  [ID |-> 0, Title |-> <<"F", "r">>, Season |-> 1, SubType |-> "chs",
   Group |-> <<"A", "B">>, Resolution |-> "1080p", Source |-> "Web",
   BangumiID |-> 0]

\* the same parse result with exactly one column changed
Variant(f) ==
  CASE f = "Title"      -> [BaseMeta EXCEPT !.Title = <<"G", "o">>]
    [] f = "Season"     -> [BaseMeta EXCEPT !.Season = 2]
    [] f = "SubType"    -> [BaseMeta EXCEPT !.SubType = "cht"]
    [] f = "Group"      -> [BaseMeta EXCEPT !.Group = <<"X", "Y">>]
    [] f = "Resolution" -> [BaseMeta EXCEPT !.Resolution = "720p"]
    [] OTHER            -> [BaseMeta EXCEPT !.Source = "BD"]

VariantFields == KeyFields \cup {"Source"}

\* the five columns a record is told apart by
Key(e) == [f \in KeyFields |-> e[f]]

\* the tuple of the unique index
IndexKey(e) == <<e.Title, e.Season, e.SubType, e.Group, e.Resolution, e.BangumiID>>

SeqsUpTo(S, n) == UNION {[1..k -> S] : k \in 0..n}

\* a *model.Bangumi argument: the two foreign-key fields, the two embedded
\* catalog records (by their id) and the metadata to attach.  A link is given
\* as <<foreign-key field, embedded record>>.
MakeCandidate(m, t, ms) ==
  [ID |-> 0, MikanID |-> m[1], MikanItem |-> m[2], TmdbID |-> t[1], TmdbItem |-> t[2],
   EpisodeMetadata |-> ms]

NoLink == <<nil, nil>>
LinkForms == {NoLink} \cup {<<i, nil>> : i \in ExtIDs} \cup {<<nil, i>> : i \in ExtIDs}

\* the arguments of a run that varies the links: every combination of link
\* forms, with at most one parse result
LinkCandidates ==
  {MakeCandidate(m, t, ms) : m \in LinkForms, t \in LinkForms, ms \in {<<>>, <<BaseMeta>>}}

\* the arguments of a run that varies the metadata: every list of parse results
\* up to MaxMeta, for a title known by one release-tracker id or by one
\* metadata-catalog id
MetaCandidates(pool) ==
  {MakeCandidate(l[1], l[2], ms) :
     l \in {<<(<<nil, 1>>), NoLink>>, <<NoLink, (<<nil, 1>>)>>}, ms \in SeqsUpTo(pool, MaxMeta)}

\* the arguments of a run under fair scheduling: one title known by its
\* release-tracker record, with and without a parse result
FairCandidates ==
  {MakeCandidate(<<nil, 1>>, NoLink, ms) : ms \in {<<>>, <<BaseMeta>>}}

\* the zero value of model.Bangumi
ZeroBangumi ==
  [ID |-> 0, MikanID |-> nil, MikanItem |-> nil, TmdbID |-> nil, TmdbItem |-> nil,
   EpisodeMetadata |-> <<>>]

\* ------------------------------------------------------------------ CreateBangumi: pure parts
\* the external id the lookup uses: the foreign-key field when set, else the
\* embedded record's id, else the zero value of `var mikanID int`
ExtractID(field, item) ==
  IF field # nil THEN field ELSE IF item # nil THEN item ELSE 0

\* the lookup with both ids required: Where("mikan_id = ? AND tmdb_id = ?")
FirstMatchBoth(rows, mikanID, tmdbID) ==
  LET hits == {i \in 1..Len(rows) : rows[i].MikanID = mikanID /\ rows[i].TmdbID = tmdbID}
  IN IF hits = {} THEN 0 ELSE CHOOSE i \in hits : \A j \in hits : i <= j

\* the lookup without First's ORDER BY primary key, returning the matching row
\* the engine saw last
FirstMatchUnordered(rows, mikanID, tmdbID) ==
  LET hits == {i \in 1..Len(rows) : rows[i].MikanID = mikanID \/ rows[i].TmdbID = tmdbID}
  IN IF hits = {} THEN 0 ELSE CHOOSE i \in hits : \A j \in hits : i >= j

\* Where("mikan_id = ?", mikanID).Or("tmdb_id", tmdbID).First(&oldBangumi):
\* the matching row with the lowest primary key, 0 when there is none
\* (a NULL column equals nothing)
FirstMatch(rows, mikanID, tmdbID) ==
  LET hits == {i \in 1..Len(rows) : rows[i].MikanID = mikanID \/ rows[i].TmdbID = tmdbID}
  IN IF hits = {} THEN 0 ELSE CHOOSE i \in hits : \A j \in hits : i <= j

\* the rows of episode_metadata owned by entity id, in primary-key order
RECURSIVE OwnedFrom(_, _, _)
OwnedFrom(em, id, i) ==
  IF i > Len(em) THEN <<>>
  ELSE IF em[i].BangumiID = id THEN <<em[i]>> \o OwnedFrom(em, id, i + 1)
  ELSE OwnedFrom(em, id, i + 1)

\* Preload("MikanItem").Preload("TmdbItem").Preload("EpisodeMetadata") of row id
Preload(rows, em, id) ==
  IF id = 0 THEN ZeroBangumi
  ELSE [ID |-> id, MikanID |-> rows[id].MikanID, MikanItem |-> rows[id].MikanID,
        TmdbID |-> rows[id].TmdbID, TmdbItem |-> rows[id].TmdbID,
        EpisodeMetadata |-> OwnedFrom(em, id, 1)]

\* a link update without the tests for a null link: the candidate's embedded
\* records replace the stored links
MergeLinksOverwrite(old, cand) ==
  LET a == IF cand.MikanItem # nil THEN [old EXCEPT !.MikanItem = cand.MikanItem] ELSE old
  IN IF cand.TmdbItem # nil THEN [a EXCEPT !.TmdbItem = cand.TmdbItem] ELSE a

\* the link update of the merge path
MergeLinks(old, cand) ==
  LET a == IF old.MikanID = nil /\ cand.MikanItem # nil
           THEN [old EXCEPT !.MikanItem = cand.MikanItem] ELSE old
  IN IF a.TmdbID = nil /\ cand.TmdbItem # nil
     THEN [a EXCEPT !.TmdbItem = cand.TmdbItem] ELSE a

\* the inner loop with a comparison that leaves Resolution out
ExistsByFour(attached, newMeta) ==
  \E k \in 1..Len(attached) :
    /\ attached[k].Title = newMeta.Title
    /\ attached[k].Season = newMeta.Season
    /\ attached[k].Group = newMeta.Group
    /\ attached[k].SubType = newMeta.SubType

\* the inner loop: some attached entry equals newMeta in the five columns
Exists(attached, newMeta) ==
  \E k \in 1..Len(attached) :
    /\ attached[k].Title = newMeta.Title
    /\ attached[k].Season = newMeta.Season
    /\ attached[k].Group = newMeta.Group
    /\ attached[k].Resolution = newMeta.Resolution
    /\ attached[k].SubType = newMeta.SubType

\* the metadata loop of the merge path: append what is not yet attached
RECURSIVE MergeMetadata(_, _, _)
MergeMetadata(attached, news, owner) ==
  IF news = <<>> THEN attached
  ELSE IF Exists(attached, Head(news))
       THEN MergeMetadata(attached, Tail(news), owner)
       ELSE MergeMetadata(Append(attached, [Head(news) EXCEPT !.BangumiID = owner]),
                          Tail(news), owner)

\* the merge path up to the write: what Save is handed
Merged(old, cand) ==
  [MergeLinks(old, cand) EXCEPT
     !.EpisodeMetadata = MergeMetadata(old.EpisodeMetadata, cand.EpisodeMetadata, old.ID)]

\* ------------------------------------------------------------------ gorm Save
\* the foreign key a belongs-to association leaves in the parent row: the
\* embedded record's primary key when there is one, else the field
ForeignKey(field, item) == IF item # nil THEN item ELSE field

\* the parent row: INSERT with the next primary key when ID is zero, else
\* UPDATE of all columns of row ID
SaveParent(rows, ent) ==
  LET row == [ID |-> ent.ID, MikanID |-> ForeignKey(ent.MikanID, ent.MikanItem),
              TmdbID |-> ForeignKey(ent.TmdbID, ent.TmdbItem)]
  IN IF ent.ID = 0 \/ ent.ID > Len(rows)
     THEN [id |-> Len(rows) + 1, rows |-> Append(rows, [row EXCEPT !.ID = Len(rows) + 1])]
     ELSE [id |-> ent.ID, rows |-> [rows EXCEPT ![ent.ID] = row]]

\* episode_metadata without its unique index
NoIndex(em, e, self) == FALSE

\* idx_episode_metadata_unique: a row other than `self` holds e's six columns
Conflicts(em, e, self) ==
  \E j \in 1..Len(em) : j # self /\ IndexKey(em[j]) = IndexKey(e)

\* the has-many association: one INSERT ... ON CONFLICT (id) DO UPDATE SET
\* bangumi_id of all entries; ok is FALSE when the unique index rejects one
RECURSIVE SaveChildren(_, _, _)
SaveChildren(em, list, owner) ==
  IF list = <<>> THEN [ok |-> TRUE, em |-> em]
  ELSE LET e == [Head(list) EXCEPT !.BangumiID = owner]
       IN IF e.ID # 0 /\ e.ID <= Len(em)
          THEN IF Conflicts(em, [em[e.ID] EXCEPT !.BangumiID = owner], e.ID)
               THEN [ok |-> FALSE, em |-> em]
               ELSE SaveChildren([em EXCEPT ![e.ID].BangumiID = owner], Tail(list), owner)
          ELSE IF Conflicts(em, e, 0)
               THEN [ok |-> FALSE, em |-> em]
               ELSE SaveChildren(Append(em, [e EXCEPT !.ID = Len(em) + 1]), Tail(list), owner)

\* a write without the default transaction: what the parent statement wrote stays
NoTransaction(before, afterParent, afterChildren, failed) ==
  IF failed THEN afterParent ELSE afterChildren

\* gorm's default transaction around Save (SkipDefaultTransaction is not set):
\* a failed statement rolls everything back
Transaction(before, afterParent, afterChildren, failed) ==
  IF failed THEN before ELSE afterChildren

\* db.Save(ent): the store after it and the error it returns; fault is TRUE
\* when the storage engine fails the write
Save(rows, em, ent, fault) ==
  LET p == SaveParent(rows, ent)
      c == SaveChildren(em, ent.EpisodeMetadata, p.id)
      failed == fault \/ ~c.ok
      db == Transaction([bangumi |-> rows, em |-> em], [bangumi |-> p.rows, em |-> em],
                        [bangumi |-> p.rows, em |-> c.em], failed)
  IN [err |-> IF fault THEN "write" ELSE IF ~c.ok THEN "constraint" ELSE "nil",
      bangumi |-> db.bangumi, em |-> db.em, id |-> p.id]

\* the merge path as written with the association replaced instead of merged
\* (what ReplaceParsesToBangumi does): entries the candidate does not carry
\* lose their owner
MergePathReplace(rows, em, old, cand, fault) ==
  LET kept == [i \in 1..Len(em) |->
                 IF em[i].BangumiID = old.ID /\ ~Exists(cand.EpisodeMetadata, em[i])
                 THEN [em[i] EXCEPT !.BangumiID = 0] ELSE em[i]]
  IN Save(rows, kept, Merged([old EXCEPT !.EpisodeMetadata = OwnedFrom(kept, old.ID, 1)], cand),
          fault)

\* the merge path: update the links, append the new metadata, Save(&oldBangumi)
MergePath(rows, em, old, cand, fault) == Save(rows, em, Merged(old, cand), fault)

\* the create path: Save(bangumi)
CreatePath(rows, em, cand, fault) == Save(rows, em, cand, fault)

\* ------------------------------------------------------------------ feed: pure parts
\* release names are a subtitle group followed by a title: two groups with
\* one title, two titles of one group; "?" is a name the title parser cannot
\* structure
Names ==
  {<<"A", "B", "F", "r">>, <<"X", "Y", "F", "r">>, <<"A", "B", "G", "o">>, <<"?">>}

\* a *model.Torrent as the feed client returns it; its URL is its name
Release(n) == [Name |-> n, URL |-> n, BangumiID |-> 0, Downloaded |-> FALSE]

\* the feeds a pull can fetch (the empty one also when the fetch fails)
Feeds == {[k \in DOMAIN ns |-> Release(ns[k])] : ns \in SeqsUpTo(Names, MaxFeed)}

\* baseparser.NewTitleMetaParse().Parse(name): <<the parse result>>, or <<>>
\* for nil
TitleMetaParse(name) ==
  IF Len(name) = 4
  THEN <<[BaseMeta EXCEPT !.Title = SubSeq(name, 3, 4), !.Group = SubSeq(name, 1, 2)]>>
  ELSE <<>>

\* the arguments createBangumi can hand to CreateBangumi for a release: the
\* parse result of its name and one catalog record, of the catalog that knew it
TaskCandidates(name) ==
  {MakeCandidate(l[1], l[2], TitleMetaParse(name)) :
     l \in {<<(<<nil, 1>>), NoLink>>, <<NoLink, (<<nil, 1>>)>>}}

\* SQLite instr(X, Y) from position i on: the 1-based position of the first
\* occurrence of Y in X, 0 when there is none
RECURSIVE InstrFrom(_, _, _)
InstrFrom(X, Y, i) ==
  IF i + Len(Y) - 1 > Len(X) THEN 0
  ELSE IF SubSeq(X, i, i + Len(Y) - 1) = Y THEN i
  ELSE InstrFrom(X, Y, i + 1)

Instr(X, Y) == InstrFrom(X, Y, 1)

\* the lookup with the title test alone: Where("instr(?, title) > 0")
GetBangumiParseByTitleOnly(em, torrentName, fault) ==
  LET hits == {k \in 1..Len(em) : Instr(torrentName, em[k].Title) > 0}
  IN IF fault THEN [err |-> "fault", parser |-> <<>>]
     ELSE IF hits = {} THEN [err |-> "ErrRecordNotFound", parser |-> <<>>]
     ELSE [err |-> "nil", parser |-> <<em[CHOOSE k \in hits : \A j \in hits : k <= j]>>]

\* GetBangumiParseByTitle: Where("instr(?, title) > 0 AND instr(?, `group`) > 0")
\* .First(&parser): the matching row with the lowest primary key; parser is
\* <<row>>, or <<>> for nil
GetBangumiParseByTitle(em, torrentName, fault) ==
  LET hits == {k \in 1..Len(em) : /\ Instr(torrentName, em[k].Title) > 0
                                   /\ Instr(torrentName, em[k].Group) > 0}
  IN IF fault THEN [err |-> "fault", parser |-> <<>>]
     ELSE IF hits = {} THEN [err |-> "ErrRecordNotFound", parser |-> <<>>]
     ELSE [err |-> "nil", parser |-> <<em[CHOOSE k \in hits : \A j \in hits : k <= j]>>]

\* GetTorrentByURL: the stored releases with that URL (at most one)
GetTorrentByURL(table, url) == {t \in table : t.URL = url}

\* CheckNewTorrents: the releases not stored as downloaded; nothing when one
\* of the lookups fails
RECURSIVE CheckNewTorrents(_, _, _)
CheckNewTorrents(table, torrents, fault) ==
  IF fault \/ torrents = <<>> THEN <<>>
  ELSE LET existing == GetTorrentByURL(table, Head(torrents).URL)
           rest == CheckNewTorrents(table, Tail(torrents), fault)
       IN IF existing = {} \/ \A e \in existing : ~e.Downloaded
          THEN <<Head(torrents)>> \o rest ELSE rest

\* CreateTorrent: db.Save(torrent), an upsert of the release with that URL
CreateTorrent(table, t, fault) ==
  IF fault THEN table ELSE {e \in table : e.URL # t.URL} \cup {t}

\* newTorrents[title] = t, the pointer t given as the release's position in the
\* fetched list
Put(map, title, t) ==
  [x \in DOMAIN map \cup {title} |-> IF x = title THEN t ELSE map[x]]

\* ------------------------------------------------------------------ state
VARIABLES
  bangumi,            \* table bangumi
  episode_metadata,   \* table episode_metadata
  mu,                 \* bangumiCreateMutex: 0 when free, else the invocation holding it
  pc,                 \* where each invocation of CreateBangumi is
  arg,                \* its argument `bangumi`
  oldBangumi,         \* its local oldBangumi
  err,                \* the error it is about to return ("none": no statement set one yet)
  mode,               \* what this run varies in the arguments: "links" or "metadata"
                      \* ("fair", "update": little, "feed": they come from the feed
                      \* pulls, "handle": the run of GetDB and InitDB)
  variant,            \* the column in which the run's second parse result differs
  pre,                \* history: the tables as the invocation found them
  during,             \* history: the release-tracker id in flight when it was called
  tally,              \* history: per release-tracker id, one count of the calls that
                      \* carried it for every call that found the id linked to nothing
  anonymous,          \* history: some candidate carried no external id
  calls,              \* history: the calls made so far
  torrent,            \* table torrent
  DQueue,             \* download.DQueue: the releases handed to the download queue
  job,                \* the feed pull in progress: "none", "find" or "refresh"
  items,              \* the releases the pull's loop has still to handle
  newTorrents,        \* FindNewBangumi's map from parsed title to release (the
                      \* release's position in the fetched list)
  task,               \* the release each createBangumi goroutine was started with
  pulls,              \* history: the pulls started so far
  fetched,            \* history: what the RefreshRSS in progress fetched
  log,                \* history: what the current pull did with each release
  globalDB,           \* the package variable globalDB: 0 for nil, else the handle
  opened,             \* history: the handles NewDB has returned so far
  written,            \* history: the handles ever assigned to globalDB
  dbpc,               \* where each goroutine is in GetDB / InitDB
  op,                 \* the function it called: "GetDB" or "InitDB"
  db,                 \* InitDB's local db
  seen,               \* the goroutine has read or written a non-nil globalDB
  got,                \* history: what GetDB returned to the goroutine, in order
  gets                \* history: the calls of GetDB and InitDB so far

store == <<bangumi, episode_metadata>>
locals == <<arg, oldBangumi, err, pre>>
history == <<during, tally, anonymous, calls>>
inputs == <<mode, variant>>
feed == <<torrent, DQueue, job, items, newTorrents, pulls, fetched, log>>
handle == <<globalDB, opened, written, dbpc, op, db, seen, got, gets>>
vars == <<bangumi, episode_metadata, mu, pc, arg, oldBangumi, err, mode, variant,
          pre, during, tally, anonymous, calls, torrent, DQueue, job, items,
          newTorrents, task, pulls, fetched, log, globalDB, opened, written, dbpc,
          op, db, seen, got, gets>>

\* the arguments CreateBangumi can be called with in this run
Pool == {BaseMeta, Variant(variant)}
Candidates ==
  CASE mode = "links" -> LinkCandidates
    [] mode \in {"fair", "update"} -> FairCandidates
    [] OTHER -> MetaCandidates(Pool)
\* ... and the ones a createBangumi goroutine calls it with
CandidatesOf(p) == IF mode = "feed" THEN TaskCandidates(task[p]) ELSE Candidates

NoTables == [bangumi |-> <<>>, em |-> <<>>]
NoFetch == [torrents |-> <<>>, bad |-> 0, em |-> <<>>]
NoTally == [n |-> 0, nok |-> 0, clean |-> TRUE, conc |-> FALSE, keys |-> {}]

Mikan(c) == ExtractID(c.MikanID, c.MikanItem)
Tmdb(c) == ExtractID(c.TmdbID, c.TmdbItem)
Keys(list) == {Key(list[k]) : k \in 1..Len(list)}
Linked(rows, m) == {i \in 1..Len(rows) : rows[i].MikanID = m}
InFlight == {p \in Procs : pc[p] \in {"lookup", "save", "unlock"}}

Start ==
  /\ bangumi = <<>>
  /\ episode_metadata = <<>>
  /\ mu = 0
  /\ pc = [p \in Procs |-> "idle"]
  /\ arg = [p \in Procs |-> ZeroBangumi]
  /\ oldBangumi = [p \in Procs |-> ZeroBangumi]
  /\ err = [p \in Procs |-> "none"]
  /\ pre = [p \in Procs |-> NoTables]
  /\ during = [p \in Procs |-> nil]
  /\ tally = [m \in ExtIDs |-> <<>>]
  /\ anonymous = FALSE
  /\ calls = 0
  /\ torrent = {}
  /\ DQueue = {}
  /\ job = "none"
  /\ items = <<>>
  /\ newTorrents = <<>>
  /\ task = [p \in Procs |-> <<>>]
  /\ pulls = 0
  /\ fetched = NoFetch
  /\ log = <<>>
  /\ globalDB = 0
  /\ opened = 0
  /\ written = {}
  /\ dbpc = [p \in Procs |-> "idle"]
  /\ op = [p \in Procs |-> "GetDB"]
  /\ db = [p \in Procs |-> 0]
  /\ seen = [p \in Procs |-> FALSE]
  /\ got = [p \in Procs |-> <<>>]
  /\ gets = 0

\* ------------------------------------------------------------------ CreateBangumi: steps
\* a Lock that does not block
CanLockAlways(m) == TRUE

\* sync.Mutex.Lock returns only when nobody holds the mutex
CanLock(m) == m = 0

\* entering CreateBangumi, up to bangumiCreateMutex.Lock()
Enter(p) ==
  /\ calls < MaxCalls
  /\ calls' = calls + 1
  /\ pc' = [pc EXCEPT ![p] = "lock"]
  /\ during' = [during EXCEPT ![p] = IF mu # 0 /\ Mikan(arg[mu]) # 0 THEN Mikan(arg[mu]) ELSE nil]
  /\ UNCHANGED <<store, mu, locals, inputs, handle, tally, anonymous, feed, task>>

\* a goroutine calls CreateBangumi
Call(p) == pc[p] = "idle" /\ Enter(p)

\* Lock() returns; the argument is read for the first time (the id extraction)
Lock(p, c) ==
  /\ pc[p] = "lock"
  /\ CanLock(mu)
  /\ mu' = p
  /\ arg' = [arg EXCEPT ![p] = c]
  /\ pre' = [pre EXCEPT ![p] = [bangumi |-> bangumi, em |-> episode_metadata]]
  /\ pc' = [pc EXCEPT ![p] = "lookup"]
  /\ anonymous' = (anonymous \/ (Mikan(c) = 0 /\ Tmdb(c) = 0))
  /\ tally' = IF Mikan(c) # 0 /\ Linked(bangumi, Mikan(c)) = {}
              THEN [tally EXCEPT ![Mikan(c)] = Append(@, NoTally)] ELSE tally
  /\ UNCHANGED <<store, oldBangumi, err, inputs, handle, during, calls, feed, task>>

\* the duplicate lookup; a storage error other than ErrRecordNotFound returns
\* (err is "lookup"; a failed Save leaves "write" or "constraint")
Lookup(p) ==
  /\ pc[p] = "lookup"
  /\ \/ /\ oldBangumi' = [oldBangumi EXCEPT ![p] =
                Preload(bangumi, episode_metadata,
                        FirstMatch(bangumi, Mikan(arg[p]), Tmdb(arg[p])))]
        /\ pc' = [pc EXCEPT ![p] = "save"]
        /\ err' = err
     \/ /\ err' = [err EXCEPT ![p] = "lookup"]
        /\ pc' = [pc EXCEPT ![p] = "unlock"]
        /\ oldBangumi' = oldBangumi
  /\ UNCHANGED <<store, mu, arg, inputs, handle, pre, history, feed, task>>

\* found: merge and Save(&oldBangumi); not found: Save(bangumi), which sets the
\* new primary key in the argument
SaveStep(p, fault) ==
  /\ pc[p] = "save"
  /\ LET found == oldBangumi[p].ID # 0
         r == IF found
              THEN MergePath(bangumi, episode_metadata, oldBangumi[p], arg[p], fault)
              ELSE CreatePath(bangumi, episode_metadata, arg[p], fault)
     IN /\ bangumi' = r.bangumi
        /\ episode_metadata' = r.em
        /\ err' = [err EXCEPT ![p] = r.err]
        /\ arg' = IF ~found /\ r.err = "nil" THEN [arg EXCEPT ![p].ID = r.id] ELSE arg
  /\ pc' = [pc EXCEPT ![p] = "unlock"]
  /\ UNCHANGED <<mu, oldBangumi, inputs, handle, pre, history, feed, task>>

\* an Unlock written before the final return instead of deferred: the early
\* error returns leave the mutex held
UnlockOnSuccess(p) == IF err[p] = "nil" THEN 0 ELSE mu

\* the mutex after `defer bangumiCreateMutex.Unlock()` ran: free, whatever
\* the function returns
DeferredUnlock(p) == 0

\* the deferred Unlock, and the return
Unlock(p) ==
  /\ pc[p] = "unlock"
  /\ mu' = DeferredUnlock(p)
  /\ pc' = [pc EXCEPT ![p] = "idle"]
  /\ LET m == Mikan(arg[p])
         t == Tmdb(arg[p])
         dirty == \E i \in 1..Len(pre[p].bangumi) :
                     pre[p].bangumi[i].TmdbID = t /\ pre[p].bangumi[i].MikanID # m
         count(b) == [n |-> b.n + 1,
                      nok |-> b.nok + (IF err[p] = "nil" THEN 1 ELSE 0),
                      clean |-> b.clean /\ ~dirty,
                      conc |-> b.conc \/ during[p] = m,
                      keys |-> IF err[p] = "nil"
                               THEN b.keys \cup Keys(arg[p].EpisodeMetadata) ELSE b.keys]
     IN tally' = IF m = 0 THEN tally
                 ELSE [tally EXCEPT ![m] = [k \in 1..Len(@) |-> count(@[k])]]
  /\ arg' = [arg EXCEPT ![p] = ZeroBangumi]
  /\ oldBangumi' = [oldBangumi EXCEPT ![p] = ZeroBangumi]
  /\ err' = [err EXCEPT ![p] = "none"]
  /\ pre' = [pre EXCEPT ![p] = NoTables]
  /\ during' = [during EXCEPT ![p] = nil]
  /\ task' = [task EXCEPT ![p] = <<>>]
  /\ UNCHANGED <<store, inputs, handle, anonymous, calls, feed>>

Next ==
  \/ \E p \in Procs : Call(p)
  \/ \E p \in Procs : \E c \in CandidatesOf(p) : Lock(p, c)
  \/ \E p \in Procs : Lookup(p)
  \/ \E p \in Procs : \E fault \in BOOLEAN : SaveStep(p, fault)
  \/ \E p \in Procs : Unlock(p)

\* the entities UpdateBangumi can be called with: one a caller loaded from the
\* store (it carries the row's primary key) or one it built (primary key zero)
UpdateArgs == {[c EXCEPT !.ID = i] : c \in Candidates, i \in 0..Len(bangumi)}

\* UpdateBangumi: db.Save(bangumi), without bangumiCreateMutex
UpdateBangumi(b, fault) ==
  /\ calls < MaxCalls
  /\ calls' = calls + 1
  /\ LET r == Save(bangumi, episode_metadata, b, fault)
     IN /\ bangumi' = r.bangumi
        /\ episode_metadata' = r.em
  /\ UNCHANGED <<mu, pc, locals, inputs, handle, during, tally, anonymous, feed, task>>

\* the store's operations on the bangumi table that write with Save
NextUpdate ==
  \/ \E p \in Procs : Call(p)
  \/ \E p \in Procs : \E c \in CandidatesOf(p) : Lock(p, c)
  \/ \E p \in Procs : Lookup(p)
  \/ \E p \in Procs : \E fault \in BOOLEAN : SaveStep(p, fault)
  \/ \E p \in Procs : Unlock(p)
  \/ \E b \in UpdateArgs : \E fault \in BOOLEAN : UpdateBangumi(b, fault)

\* ------------------------------------------------------------------ the store handle: steps
\* globalDB is read and written without synchronisation.  A read returns nil
\* or any handle assigned so far; a goroutine that has read or written a
\* non-nil handle does not read nil afterwards.
Load(p) == IF seen[p] THEN written ELSE {0} \cup written

rest == <<bangumi, episode_metadata, mu, pc, arg, oldBangumi, err, mode, variant,
          pre, during, tally, anonymous, calls, torrent, DQueue, job, items,
          newTorrents, task, pulls, fetched, log>>

\* where a goroutine continues when InitDB returns
AfterInitDB(p) == IF op[p] = "GetDB" THEN "return" ELSE "idle"

\* a goroutine calls GetDB
GetDB(p) ==
  /\ dbpc[p] = "idle"
  /\ gets < MaxGets
  /\ gets' = gets + 1
  /\ op' = [op EXCEPT ![p] = "GetDB"]
  /\ dbpc' = [dbpc EXCEPT ![p] = "GetDB"]
  /\ UNCHANGED <<rest, globalDB, opened, written, db, seen, got>>

\* GetDB's test `globalDB == nil`: InitDB(nil) is called when it read nil
GetDBTest(p) ==
  /\ dbpc[p] = "GetDB"
  /\ \E v \in Load(p) :
       /\ dbpc' = [dbpc EXCEPT ![p] = IF v = 0 THEN "InitDB" ELSE "return"]
       /\ seen' = [seen EXCEPT ![p] = @ \/ v # 0]
  /\ UNCHANGED <<rest, globalDB, opened, written, op, db, got, gets>>

\* a goroutine calls InitDB itself
InitDB(p) ==
  /\ dbpc[p] = "idle"
  /\ gets < MaxGets
  /\ gets' = gets + 1
  /\ op' = [op EXCEPT ![p] = "InitDB"]
  /\ dbpc' = [dbpc EXCEPT ![p] = "InitDB"]
  /\ UNCHANGED <<rest, globalDB, opened, written, db, seen, got>>

\* InitDB's test `globalDB != nil`: it returns nil when it read a handle
InitDBTest(p) ==
  /\ dbpc[p] = "InitDB"
  /\ \E v \in Load(p) :
       /\ dbpc' = [dbpc EXCEPT ![p] = IF v # 0 THEN AfterInitDB(p) ELSE "NewDB"]
       /\ seen' = [seen EXCEPT ![p] = @ \/ v # 0]
  /\ UNCHANGED <<rest, globalDB, opened, written, op, db, got, gets>>

\* db, err := NewDB(dsn): a new handle, or an error and InitDB returns it
NewDB(p, ok) ==
  /\ dbpc[p] = "NewDB"
  /\ IF ok
     THEN /\ opened' = opened + 1
          /\ db' = [db EXCEPT ![p] = opened + 1]
          /\ dbpc' = [dbpc EXCEPT ![p] = "store"]
     ELSE /\ dbpc' = [dbpc EXCEPT ![p] = AfterInitDB(p)]
          /\ UNCHANGED <<opened, db>>
  /\ UNCHANGED <<rest, globalDB, written, op, seen, got, gets>>

\* globalDB = db, and InitDB returns nil
StoreGlobalDB(p) ==
  /\ dbpc[p] = "store"
  /\ globalDB' = db[p]
  /\ written' = written \cup {db[p]}
  /\ seen' = [seen EXCEPT ![p] = TRUE]
  /\ dbpc' = [dbpc EXCEPT ![p] = AfterInitDB(p)]
  /\ UNCHANGED <<rest, opened, op, db, got, gets>>

\* GetDB's `return globalDB`
ReturnGlobalDB(p) ==
  /\ dbpc[p] = "return"
  /\ \E v \in Load(p) :
       /\ got' = [got EXCEPT ![p] = Append(@, v)]
       /\ seen' = [seen EXCEPT ![p] = @ \/ v # 0]
  /\ dbpc' = [dbpc EXCEPT ![p] = "idle"]
  /\ UNCHANGED <<rest, globalDB, opened, written, op, db, gets>>

NextHandle ==
  \/ \E p \in Procs : GetDB(p)
  \/ \E p \in Procs : GetDBTest(p)
  \/ \E p \in Procs : InitDB(p)
  \/ \E p \in Procs : InitDBTest(p)
  \/ \E p \in Procs : \E ok \in BOOLEAN : NewDB(p, ok)
  \/ \E p \in Procs : StoreGlobalDB(p)
  \/ \E p \in Procs : ReturnGlobalDB(p)

\* ------------------------------------------------------------------ the feed pulls: steps
Idle == \A p \in Procs : pc[p] = "idle"

\* what the history keeps of one release of the pull (missing: the caller took
\* its branch for a release without stored metadata, the one `err != nil` guards)
Entry(t, r, filtered, accepted, raw) ==
  [name |-> t.Name, em |-> episode_metadata, err |-> r.err, parser |-> r.parser,
   missing |-> r.err # "nil",
   filtered |-> filtered, accepted |-> accepted, parsed |-> accepted, raw |-> raw,
   dispatched |-> FALSE, attached |-> FALSE, stored |-> FALSE, queued |-> FALSE]

\* FindNewBangumi is called and fetches the feed.  (Bounds: the pull starts
\* when no createBangumi goroutine of an earlier pull is left, and while the
\* run has calls of CreateBangumi left for every release.)
FindStart(torrents) ==
  /\ job = "none"
  /\ pulls < MaxPulls
  /\ Idle
  /\ calls + Len(torrents) <= MaxCalls
  /\ Len(torrents) <= NProc
  /\ job' = "find"
  /\ pulls' = pulls + 1
  /\ items' = torrents
  /\ newTorrents' = <<>>
  /\ log' = <<>>
  /\ UNCHANGED <<store, mu, pc, locals, inputs, handle, history, torrent, DQueue, task, fetched>>

\* one round of FindNewBangumi's first loop; accept is what FilterTorrent(t, nil)
\* answers when it is asked
FindStep(fault, accept) ==
  /\ job = "find"
  /\ items # <<>>
  /\ LET t == Head(items)
         r == GetBangumiParseByTitle(episode_metadata, t.Name, fault)
         filtered == r.err # "nil"
         accepted == filtered /\ accept
         raw == IF accepted THEN TitleMetaParse(t.Name) ELSE <<>>
     IN /\ newTorrents' = IF raw # <<>> THEN Put(newTorrents, raw[1].Title, Len(log) + 1)
                                        ELSE newTorrents
        /\ log' = Append(log, Entry(t, r, filtered, accepted, raw))
  /\ items' = Tail(items)
  /\ UNCHANGED <<store, mu, pc, locals, inputs, handle, history, torrent, DQueue, job, task, pulls,
                 fetched>>

\* the second loop with a wait for the goroutines it started: FindNewBangumi
\* returns when all of them have ended
FindDispatchWait ==
  /\ job = "find"
  /\ items = <<>>
  /\ IF newTorrents = <<>> \/ \E k \in DOMAIN log : log[k].dispatched
     THEN /\ \A p \in Procs : pc[p] = "idle"
          /\ job' = "none"
          /\ UNCHANGED <<pc, task, log>>
     ELSE /\ \E g \in [DOMAIN newTorrents -> Procs] :
               /\ \A x, y \in DOMAIN newTorrents : g[x] = g[y] => x = y
               /\ task' = [p \in Procs |->
                             IF \E x \in DOMAIN newTorrents : g[x] = p
                             THEN log[newTorrents[CHOOSE x \in DOMAIN newTorrents :
                                                           g[x] = p]].name
                             ELSE task[p]]
               /\ pc' = [p \in Procs |-> IF \E x \in DOMAIN newTorrents : g[x] = p
                                         THEN "task" ELSE pc[p]]
          /\ log' = [k \in DOMAIN log |->
                       [log[k] EXCEPT !.dispatched =
                          \E x \in DOMAIN newTorrents : newTorrents[x] = k]]
          /\ job' = job
  /\ UNCHANGED <<store, mu, locals, inputs, handle, history, torrent, DQueue, items, newTorrents,
                 pulls, fetched>>

\* FindNewBangumi's second loop, `go createBangumi(t, url)` for every entry of
\* the map, and its return
FindDispatch ==
  /\ job = "find"
  /\ items = <<>>
  /\ \E g \in [DOMAIN newTorrents -> Procs] :
       /\ \A x, y \in DOMAIN newTorrents : g[x] = g[y] => x = y
       /\ task' = [p \in Procs |-> IF \E x \in DOMAIN newTorrents : g[x] = p
                                   THEN log[newTorrents[CHOOSE x \in DOMAIN newTorrents :
                                                                 g[x] = p]].name
                                   ELSE task[p]]
       /\ pc' = [p \in Procs |-> IF \E x \in DOMAIN newTorrents : g[x] = p
                                 THEN "task" ELSE pc[p]]
  /\ log' = [k \in DOMAIN log |->
               [log[k] EXCEPT !.dispatched = \E x \in DOMAIN newTorrents : newTorrents[x] = k]]
  /\ job' = "none"
  /\ UNCHANGED <<store, mu, locals, inputs, handle, history, torrent, DQueue, items, newTorrents,
                 pulls, fetched>>

\* a createBangumi goroutine resolves its release: it gives up (ok is FALSE,
\* the failure is logged) or calls CreateBangumi
createBangumi(p, ok) ==
  /\ pc[p] = "task"
  /\ IF ok THEN Enter(p)
     ELSE /\ pc' = [pc EXCEPT ![p] = "idle"]
          /\ task' = [task EXCEPT ![p] = <<>>]
          /\ UNCHANGED <<store, mu, locals, inputs, handle, history, feed>>

\* RefreshRSS is called: pullRss, that is the fetch and CheckNewTorrents, whose
\* lookup of the release at position bad fails (0: none fails)
RefreshStart(torrents, bad) ==
  /\ job = "none"
  /\ pulls < MaxPulls
  /\ bad \in 0..Len(torrents)
  /\ job' = "refresh"
  /\ pulls' = pulls + 1
  /\ items' = CheckNewTorrents(torrent, torrents, bad # 0)
  /\ fetched' = [torrents |-> torrents, bad |-> bad, em |-> episode_metadata]
  /\ log' = <<>>
  /\ UNCHANGED <<store, mu, pc, locals, inputs, handle, history, torrent, DQueue, newTorrents, task>>

\* one round of RefreshRSS's loop; the three faults are those of the metadata
\* lookup, of GetTorrentByURL and of CreateTorrent
RefreshStep(fault, urlFault, writeFault) ==
  /\ job = "refresh"
  /\ items # <<>>
  /\ LET r == GetBangumiParseByTitle(episode_metadata, Head(items).Name, fault)
         t == IF r.err = "nil" THEN [Head(items) EXCEPT !.BangumiID = r.parser[1].BangumiID]
                               ELSE Head(items)
         existingTorrent == IF urlFault THEN {} ELSE GetTorrentByURL(torrent, t.URL)
         skip == r.err # "nil" \/ \E e \in existingTorrent : e.Downloaded
     IN /\ torrent' = IF skip THEN torrent ELSE CreateTorrent(torrent, t, writeFault)
        /\ DQueue' = IF skip THEN DQueue ELSE DQueue \cup {t}
        /\ log' = Append(log, [Entry(t, r, FALSE, FALSE, <<>>) EXCEPT
                                 !.attached = r.err = "nil", !.stored = ~skip /\ ~writeFault,
                                 !.queued = ~skip])
  /\ items' = Tail(items)
  /\ UNCHANGED <<store, mu, pc, locals, inputs, handle, history, job, newTorrents, task, pulls,
                 fetched>>

\* RefreshRSS returns
RefreshReturn ==
  /\ job = "refresh"
  /\ items = <<>>
  /\ job' = "none"
  /\ fetched' = NoFetch
  /\ UNCHANGED <<store, mu, pc, locals, inputs, handle, history, torrent, DQueue, items, newTorrents,
                 task, pulls, log>>

\* the download system finishes a queued release and has it stored as downloaded
Downloaded(t) ==
  /\ t \in torrent
  /\ ~t.Downloaded
  /\ \E q \in DQueue : q.URL = t.URL
  /\ torrent' = (torrent \ {t}) \cup {[t EXCEPT !.Downloaded = TRUE]}
  /\ UNCHANGED <<store, mu, pc, locals, inputs, handle, history, DQueue, job, items, newTorrents,
                 task, pulls, fetched, log>>

NextFeed ==
  \/ \E torrents \in Feeds : FindStart(torrents)
  \/ \E fault, accept \in BOOLEAN : FindStep(fault, accept)
  \/ FindDispatch
  \/ \E p \in Procs : \E ok \in BOOLEAN : createBangumi(p, ok)
  \/ \E torrents \in Feeds : \E bad \in 0..MaxFeed : RefreshStart(torrents, bad)
  \/ \E fault, urlFault, writeFault \in BOOLEAN : RefreshStep(fault, urlFault, writeFault)
  \/ RefreshReturn
  \/ \E t \in torrent : Downloaded(t)
  \/ \E p \in Procs : \E c \in CandidatesOf(p) : Lock(p, c)
  \/ \E p \in Procs : Lookup(p)
  \/ \E p \in Procs : \E fault \in BOOLEAN : SaveStep(p, fault)
  \/ \E p \in Procs : Unlock(p)

\* the run of the feed pulls: CreateBangumi is called by createBangumi alone
InitFeed == Start /\ mode = "feed" /\ variant = "Source"
SpecFeed == InitFeed /\ [][NextFeed]_vars

\* the run that varies the links of the arguments
Init == Start /\ mode = "links" /\ variant = "Resolution"
Spec == Init /\ [][Next]_vars

\* the run that varies the metadata of the arguments
InitMeta == Start /\ mode = "metadata" /\ variant \in VariantFields
SpecMeta == InitMeta /\ [][Next]_vars

\* the scheduling of the goroutines: one that can take its next statement
\* takes it, and one that waits in Lock gets the mutex once it stays free
Fairness ==
  \A p \in Procs :
    /\ WF_vars(\E c \in CandidatesOf(p) : Lock(p, c))
    /\ WF_vars(Lookup(p))
    /\ WF_vars(\E fault \in BOOLEAN : SaveStep(p, fault))
    /\ WF_vars(Unlock(p))

\* the run of CreateBangumi under that scheduling
InitFair == Start /\ mode = "fair" /\ variant = "Resolution"
SpecFair == InitFair /\ [][Next]_vars /\ Fairness

\* the run in which callers of the store also use UpdateBangumi
InitUpdate == Start /\ mode = "update" /\ variant = "Resolution"
SpecUpdate == InitUpdate /\ [][NextUpdate]_vars

\* the run of the goroutines that ask for the store handle
InitHandle == Start /\ mode = "handle" /\ variant = "Resolution"
SpecHandle == InitHandle /\ [][NextHandle]_vars

TypeOK ==
  /\ mu \in 0..NProc
  /\ \A p \in Procs : pc[p] \in {"idle", "task", "lock", "lookup", "save", "unlock"}
  /\ job \in {"none", "find", "refresh"}
  /\ \A t \in torrent : Cardinality(GetTorrentByURL(torrent, t.URL)) = 1

\* ------------------------------------------------------------------ claims
\* no invocation carrying release-tracker id m is past Lock and before its return
Returned(m) == \A p \in InFlight : Mikan(arg[p]) # m

Pair(row) == <<row.MikanID, row.TmdbID>>

\* C1 as stated: two or more calls that all carry one release-tracker id, the
\* first of them finding no entity linked to it, all returning nil, leave exactly
\* one row linked to that id.
C1_AsStated ==
  \A m \in ExtIDs : \A k \in 1..Len(tally[m]) :
    (tally[m][k].n >= 2 /\ tally[m][k].nok = tally[m][k].n /\ Returned(m))
      => Cardinality(Linked(bangumi, m)) = 1

\* C1, amended: two or more calls that all carry one release-tracker id, the
\* first of them finding no entity linked to it and none of them finding its
\* metadata-catalog id linked to an entity that is not linked to the
\* release-tracker id, leave exactly one row linked to that id once all have
\* returned and one of them returned nil.
C1_OneRowForNewID ==
  \A m \in ExtIDs : \A k \in 1..Len(tally[m]) :
    (tally[m][k].n >= 2 /\ tally[m][k].clean /\ tally[m][k].nok >= 1 /\ Returned(m))
      => Cardinality(Linked(bangumi, m)) = 1

\* two calls with the same new id, one called while the other held the lock,
\* have returned and left one row
C1_Witness ==
  \E m \in ExtIDs : \E k \in 1..Len(tally[m]) :
    /\ tally[m][k].n >= 2 /\ tally[m][k].clean /\ tally[m][k].nok >= 2
    /\ tally[m][k].conc /\ Returned(m)
    /\ Cardinality(Linked(bangumi, m)) = 1

\* C2: at most one invocation is between its lookup and its return.
C2_MutualExclusion == Cardinality(InFlight) <= 1

\* one invocation has found its entity and is about to write while another
\* waits in Lock
C2_Witness ==
  \E p, q \in Procs :
    /\ pc[p] = "save" /\ pc[q] = "lock"
    /\ oldBangumi[p].ID # 0

\* C3: when every candidate so far carried an external id, no two rows have
\* the same pair (release-tracker id, metadata-catalog id).
C3_NoDuplicatePair ==
  ~anonymous =>
    \A i, j \in 1..Len(bangumi) : Pair(bangumi[i]) = Pair(bangumi[j]) => i = j

\* three rows, two of them sharing a release-tracker id but not the pair
C3_Witness ==
  /\ ~anonymous
  /\ \E i, j \in 1..Len(bangumi) :
       /\ i # j
       /\ bangumi[i].MikanID # nil
       /\ bangumi[i].MikanID = bangumi[j].MikanID

\* the invocation is at its return with nil, having found exactly one row,
\* linked to a release-tracker id only
AfterMikanOnly(p) ==
  /\ pc[p] = "unlock" /\ err[p] = "nil"
  /\ Len(pre[p].bangumi) = 1
  /\ pre[p].bangumi[1].MikanID # nil
  /\ pre[p].bangumi[1].TmdbID = nil

\* the candidate and the stored entity's metadata have a title in common
SameTitle(p) ==
  \E a \in 1..Len(pre[p].em) : \E b \in 1..Len(arg[p].EpisodeMetadata) :
    /\ pre[p].em[a].BangumiID = 1
    /\ pre[p].em[a].Title = arg[p].EpisodeMetadata[b].Title

C6_UniqueMetadata ==
  \A i, j \in 1..Len(episode_metadata) :
    IndexKey(episode_metadata[i]) = IndexKey(episode_metadata[j]) => i = j

\* a candidate whose own list repeats a key was refused on the create path
\* while the same five columns are stored for another entity
C6_Witness ==
  \E p \in Procs :
    /\ pc[p] = "unlock" /\ err[p] = "constraint"
    /\ oldBangumi[p].ID = 0
    /\ \E i \in 1..Len(episode_metadata) :
         Key(episode_metadata[i]) = Key(arg[p].EpisodeMetadata[1])

\* C7: at the return of every call, each metadata row stored when the call
\* began is still stored, unchanged.
C7_MetadataKept ==
  \A p \in Procs :
    pc[p] = "unlock" =>
      \A i \in 1..Len(pre[p].em) :
        i <= Len(episode_metadata) /\ episode_metadata[i] = pre[p].em[i]

\* a merge appended a record to an entity that already had one
C7_Witness ==
  \E p \in Procs :
    /\ pc[p] = "unlock" /\ err[p] = "nil" /\ oldBangumi[p].ID # 0
    /\ oldBangumi[p].EpisodeMetadata # <<>>
    /\ Len(episode_metadata) > Len(pre[p].em)

\* C8: a call that returns an error leaves both tables as it found them, and
\* every call that reaches its return has an error or nil to return.
C8_NoPartialWrite ==
  \A p \in Procs :
    pc[p] = "unlock" =>
      /\ err[p] \in {"nil", "lookup", "write", "constraint"}
      /\ err[p] # "nil" =>
           (bangumi = pre[p].bangumi /\ episode_metadata = pre[p].em)

\* the write failed on the create path, with metadata to store
C8_Witness ==
  \E p \in Procs :
    /\ pc[p] = "unlock" /\ err[p] = "write" /\ oldBangumi[p].ID = 0
    /\ arg[p].EpisodeMetadata # <<>>
    /\ bangumi = pre[p].bangumi /\ bangumi # <<>>

\* needle occurs in hay as a contiguous run of characters
IsSubstring(needle, hay) ==
  \E i \in 0..(Len(hay) - Len(needle)) : SubSeq(hay, i + 1, i + Len(needle)) = needle

\* both the title and the subtitle group of record e occur in the name
Contained(e, name) == IsSubstring(e.Title, name) /\ IsSubstring(e.Group, name)

\* some row of the table em passes both containment tests for the name
Matches(em, name) == \E j \in 1..Len(em) : Contained(em[j], name)

\* C9: every call of GetBangumiParseByTitle(name) that returns a record returns
\* a stored one whose title and whose subtitle group are both substrings of
\* name (so never one whose title is contained and whose group is not); a call
\* that reports not-found found no stored record passing both tests, and a call
\* the storage engine answered while no stored record passed both tests
\* reports not-found.
C9_ContainmentLookup ==
  \A k \in DOMAIN log :
    /\ log[k].parser # <<>> =>
         /\ \E j \in 1..Len(log[k].em) : log[k].em[j] = log[k].parser[1]
         /\ Contained(log[k].parser[1], log[k].name)
         /\ log[k].err = "nil"
    /\ log[k].err = "ErrRecordNotFound" => ~Matches(log[k].em, log[k].name)
    /\ (log[k].err # "fault" /\ ~Matches(log[k].em, log[k].name)) =>
         (log[k].err = "ErrRecordNotFound" /\ log[k].parser = <<>>)

\* a lookup reported not-found although a stored record's title occurs in the
\* name (its group does not), and a lookup of the same pull returned a record
C9_Witness ==
  /\ \E k \in DOMAIN log :
       /\ log[k].err = "ErrRecordNotFound"
       /\ \E j \in 1..Len(log[k].em) :
            /\ IsSubstring(log[k].em[j].Title, log[k].name)
            /\ ~IsSubstring(log[k].em[j].Group, log[k].name)
  /\ \E k \in DOMAIN log : log[k].parser # <<>>

\* C10: in a feed pull, a release whose name matches a stored EpisodeMetadata
\* record is never passed to the title parser nor dispatched by FindNewBangumi,
\* and a release whose name matches nothing is never parsed, dispatched or
\* attached unless FilterTorrent accepted it first.
C10_FastSlowSplit ==
  \A k \in DOMAIN log :
    /\ Matches(log[k].em, log[k].name) => (~log[k].parsed /\ ~log[k].dispatched)
    /\ (~Matches(log[k].em, log[k].name)
          /\ (log[k].parsed \/ log[k].dispatched \/ log[k].attached)) => log[k].accepted

\* C11: at the return of a call that returns nil, the caller's entity carries
\* the primary key of the row that represents the candidate in the store: the
\* new row on the create path, the found row on the merge path.
C11_ReturnedEntity ==
  \A p \in Procs :
    (pc[p] = "unlock" /\ err[p] = "nil") =>
      /\ arg[p].ID \in 1..Len(bangumi)
      /\ oldBangumi[p].ID # 0 => arg[p].ID = oldBangumi[p].ID

\* what a pull has done: its map, its history and whether it has returned
Outcome == <<job, items, newTorrents, log, torrent, DQueue>>

\* C12: FindNewBangumi has returned as soon as its releases are dispatched,
\* whatever its createBangumi goroutines do afterwards, and the end of a
\* goroutine, failed or not, changes nothing of what the pull has done.
C12_FireAndForget ==
  [][/\ (\E k \in DOMAIN log' : log'[k].dispatched) => job' # "find"
     /\ (\E p \in Procs : pc[p] # "idle" /\ pc'[p] = "idle") => Outcome' = Outcome]_vars

\* the pull has returned while a goroutine it started is at the return of a
\* CreateBangumi that failed
C12_Witness ==
  /\ job = "none"
  /\ \E p \in Procs :
       /\ pc[p] = "unlock" /\ err[p] \in {"lookup", "write"}
       /\ \E k \in DOMAIN log : log[k].dispatched /\ log[k].name = task[p]

\* the RefreshRSS in progress has handled all it is going to handle
LoopDone == job = "refresh" /\ items = <<>>

\* the handling of the release named n in the loop met a storage fault
OwnFault(n) ==
  \E k \in DOMAIN log :
    log[k].name = n /\ (log[k].err = "fault" \/ (log[k].queued /\ ~log[k].stored))

\* C13: when RefreshRSS is about to return, every fetched release other than
\* the one whose handling failed in the pull step, that had matching metadata
\* when the pull began, is not stored as downloaded and met no storage fault of
\* its own, has been persisted and enqueued.
C13_PerItemIsolation ==
  LoopDone =>
    \A i \in DOMAIN fetched.torrents :
      LET t == fetched.torrents[i]
      IN (/\ i # fetched.bad
          /\ Matches(fetched.em, t.Name)
          /\ \A e \in GetTorrentByURL(torrent, t.URL) : ~e.Downloaded
          /\ ~OwnFault(t.Name))
           => \E k \in DOMAIN log : log[k].name = t.Name /\ log[k].stored /\ log[k].queued

\* the invocation is at its return with nil, having taken the merge path
AfterMerge(p) == pc[p] = "unlock" /\ err[p] = "nil" /\ oldBangumi[p].ID # 0

\* C14: after a merge, a link that was null in the found entity and whose id
\* the candidate supplies, in the foreign-key field or in the embedded record,
\* is stored with the candidate's id.
C14_LinkFilledInEitherForm ==
  \A p \in Procs :
    AfterMerge(p) =>
      /\ (oldBangumi[p].MikanID = nil /\ Mikan(arg[p]) # 0)
           => bangumi[oldBangumi[p].ID].MikanID = Mikan(arg[p])
      /\ (oldBangumi[p].TmdbID = nil /\ Tmdb(arg[p]) # 0)
           => bangumi[oldBangumi[p].ID].TmdbID = Tmdb(arg[p])

\* the rows of bangumi that match the candidate of p in either id, as p found
\* the table
MatchedBy(p) ==
  {i \in 1..Len(pre[p].bangumi) :
     \/ pre[p].bangumi[i].MikanID = Mikan(arg[p])
     \/ pre[p].bangumi[i].TmdbID = Tmdb(arg[p])}

\* the entities the call of p has created or changed: rows of bangumi that are
\* new or differ, and the owners of metadata rows that are new or differ
Touched(p) ==
  {i \in 1..Len(bangumi) : i > Len(pre[p].bangumi) \/ bangumi[i] # pre[p].bangumi[i]}
    \cup {episode_metadata[i].BangumiID : i \in
            {i \in 1..Len(episode_metadata) :
               i > Len(pre[p].em) \/ episode_metadata[i] # pre[p].em[i]}}

\* C15: at the return of every call, the entity it merged into is the matching
\* row with the lowest primary key (so the same one whenever the store and the
\* candidate are the same), every other entity has its row and its metadata as
\* the call found them, and at most one entity was created or changed.
C15_DualMatchFirstFound ==
  \A p \in Procs :
    pc[p] = "unlock" =>
      /\ Cardinality(Touched(p)) <= 1
      /\ Len(pre[p].em) <= Len(episode_metadata)
      /\ (err[p] # "lookup" /\ MatchedBy(p) # {}) =>
           /\ oldBangumi[p].ID \in MatchedBy(p)
           /\ \A i \in MatchedBy(p) : oldBangumi[p].ID <= i
           /\ Touched(p) \subseteq {oldBangumi[p].ID}

\* the candidate's release-tracker id matched one entity and its
\* metadata-catalog id an older one; the older one was picked and the parse
\* result attached to it
C15_Witness ==
  \E p \in Procs :
    /\ pc[p] = "unlock" /\ err[p] = "nil"
    /\ \E i, j \in MatchedBy(p) :
         /\ i < j
         /\ pre[p].bangumi[i].TmdbID = Tmdb(arg[p])
         /\ pre[p].bangumi[i].MikanID # Mikan(arg[p])
         /\ pre[p].bangumi[j].MikanID = Mikan(arg[p])
         /\ oldBangumi[p].ID = i
    /\ Touched(p) = {oldBangumi[p].ID}

\* C16: every invocation that has reached Lock returns, and the mutex is free
\* whenever no invocation is past Lock, whatever the earlier invocations
\* returned.
C16_LockReleased ==
  /\ \A p \in Procs : (pc[p] = "lock") ~> (pc[p] = "idle")
  /\ [](InFlight = {} => mu = 0)

\* an invocation waits in Lock while the one holding the mutex is at its
\* return with a storage error
C16_Witness ==
  \E p, q \in Procs :
    /\ pc[p] = "lock"
    /\ pc[q] = "unlock" /\ mu = q
    /\ err[q] \in {"lookup", "write"}

\* C17: a release whose containment lookup failed with a storage fault is not
\* handled as one without stored metadata: FindNewBangumi neither asks the
\* filter, parses nor dispatches it, and RefreshRSS does not take its branch
\* for missing metadata.
C17_FaultIsNotNotFound ==
  \A k \in DOMAIN log :
    log[k].err = "fault" =>
      (~log[k].missing /\ ~log[k].filtered /\ ~log[k].parsed /\ ~log[k].dispatched)

\* the releases of the pull that have no matching metadata, pass the filter
\* and are parseable
Qualifies(k) ==
  /\ ~Matches(log[k].em, log[k].name)
  /\ log[k].accepted
  /\ log[k].raw # <<>>

TasksFor(T) == {k \in DOMAIN log : log[k].dispatched /\ log[k].raw[1].Title = T}

\* C18: when FindNewBangumi has returned, every title parsed from a release
\* without matching metadata that passed the filter has exactly one task, no
\* task is for another release, and a release the parser returns nil for has
\* no task and so no entity.
C18_OneTaskPerTitle ==
  job # "find" =>
    /\ \A k \in DOMAIN log : Qualifies(k) => Cardinality(TasksFor(log[k].raw[1].Title)) = 1
    /\ \A k \in DOMAIN log : log[k].dispatched => Qualifies(k)
    /\ \A k \in DOMAIN log :
         log[k].raw = <<>> =>
           (~log[k].dispatched /\ (log[k].parsed => \A p \in Procs : task[p] # log[k].name))

\* C19: a round of RefreshRSS's loop persists and enqueues its release exactly
\* when the lookup found metadata for its name and no stored release with its
\* URL is marked downloaded; the enqueued release carries the BangumiID of the
\* metadata found, and a release without metadata found is neither persisted
\* nor enqueued.
C19_PersistAndEnqueue ==
  [][(job = "refresh" /\ Len(log') = Len(log) + 1) =>
       LET l == log'[Len(log')]
           t == Head(items)
           downloaded == \E e \in GetTorrentByURL(torrent, t.URL) : e.Downloaded
       IN /\ (l.stored /\ l.queued) <=> (l.err = "nil" /\ ~downloaded)
          /\ l.stored <=> l.queued
          /\ l.queued =>
               /\ [t EXCEPT !.BangumiID = l.parser[1].BangumiID] \in DQueue'
               /\ [t EXCEPT !.BangumiID = l.parser[1].BangumiID] \in torrent'
          /\ l.err # "nil" => (torrent' = torrent /\ DQueue' = DQueue)]_vars

\* C20: a row is added to the bangumi table only by the Save of an invocation
\* of CreateBangumi that holds bangumiCreateMutex and has done its duplicate
\* lookup; no other operation of the store, UpdateBangumi included, adds one.
C20_RowsOnlyUnderLock ==
  [][Len(bangumi') > Len(bangumi) =>
       \E p \in Procs : /\ mu = p
                        /\ pc[p] = "save" /\ pc'[p] = "unlock"
                        /\ oldBangumi[p].ID = 0]_vars

\* C21: NewDB returns at most one handle, and all the handles GetDB returned
\* to its callers are the same one.
C21_InitializedOnce ==
  /\ opened <= 1
  /\ \A p, q \in Procs : \A i \in DOMAIN got[p] : \A j \in DOMAIN got[q] :
       (got[p][i] # 0 /\ got[q][j] # 0) => got[p][i] = got[q][j]

\* each external id is linked to at most one row
OneEntityPerID(rows) ==
  \A i, j \in 1..Len(rows) :
    i # j => /\ rows[i].MikanID # nil => rows[i].MikanID # rows[j].MikanID
             /\ rows[i].TmdbID # nil => rows[i].TmdbID # rows[j].TmdbID

\* C22 as stated: no two rows share a non-null release-tracker id, and no two a
\* non-null metadata-catalog id.
C22_AsStated == OneEntityPerID(bangumi)

\* C22, amended: a call that found every external id linked to at most one
\* row, and its candidate's two ids not linked to two different rows, leaves
\* every external id linked to at most one row, also when its merge filled a
\* null link.
C22_OneEntityPerID ==
  \A p \in Procs :
    (pc[p] = "unlock" /\ OneEntityPerID(pre[p].bangumi) /\ Cardinality(MatchedBy(p)) <= 1)
      => OneEntityPerID(bangumi)

\* a merge has filled the null metadata-catalog link of the one row that
\* matched, in a table of two rows
C22_Witness ==
  \E p \in Procs :
    /\ pc[p] = "unlock" /\ err[p] = "nil"
    /\ OneEntityPerID(pre[p].bangumi)
    /\ MatchedBy(p) = {oldBangumi[p].ID}
    /\ Len(bangumi) >= 2
    /\ pre[p].bangumi[oldBangumi[p].ID].TmdbID = nil
    /\ bangumi[oldBangumi[p].ID].TmdbID = Tmdb(arg[p])
    /\ Tmdb(arg[p]) # 0

\* C23: at the return of every call, every row the call found with a non-null
\* release-tracker link or metadata-catalog link still has that link, whatever
\* ids the candidate carries.
C23_SetLinkKept ==
  \A p \in Procs :
    pc[p] = "unlock" =>
      \A i \in 1..Len(pre[p].bangumi) :
        /\ i <= Len(bangumi)
        /\ pre[p].bangumi[i].MikanID # nil => bangumi[i].MikanID = pre[p].bangumi[i].MikanID
        /\ pre[p].bangumi[i].TmdbID # nil => bangumi[i].TmdbID = pre[p].bangumi[i].TmdbID

\* the call merged into a row whose release-tracker link was set, with a
\* candidate that carries another release-tracker id, as an embedded record
C23_Witness ==
  \E p \in Procs :
    /\ pc[p] = "unlock" /\ err[p] = "nil"
    /\ oldBangumi[p].ID # 0
    /\ oldBangumi[p].MikanID # nil
    /\ arg[p].MikanItem # nil
    /\ arg[p].MikanItem # oldBangumi[p].MikanID
    /\ bangumi[oldBangumi[p].ID].MikanID = oldBangumi[p].MikanID

====
